---- MODULE Spec2Model ----
(***************************************************************************)
(* Model of SubscriptionEngine (subscriptions/engine.py) and PricingModel  *)
(* (subscriptions/models/pricing_model.py).                                *)
(*                                                                         *)
(* Numbers.  Probabilities, demand scores and the perturbation are held in *)
(* tenths (0.5 is Half = 5, 1 is One = 10); prices are whole multiples of  *)
(* One currency units, so that price * (1 + eps) is exact; a revenue is    *)
(* held in units of 1/(One*One), which keeps its sign and its zero.        *)
(*                                                                         *)
(* Python values.  A scalar is a record [t, v]: t = "float" with the       *)
(* number v, or t = "None".  A call's result is [exc, val]: exc = TRUE is  *)
(* a raised Exception.  Dictionaries live in heap, addressed by reference, *)
(* so that aliasing and copying are visible.                               *)
(*                                                                         *)
(* engine.py:46 reads `get HistoricalData(customer_id)`; it is modelled as *)
(* the call getHistoricalData(customer_id).                                *)
(***************************************************************************)
EXTENDS Integers, Sequences, FiniteSets

\* ---------------------------------------------------------------- bounds
MaxCustomers == 2

\* ------------------------------------------------------ program constants
Half == 5
One == Half + Half
DefaultLength == 30
\* standard deviation of the perturbation, engine.py:120, in tenths
Sigma == 1

\* ------------------------------------------------------------ value model
PyNone == [t |-> "None", v |-> 0]
PyFloat(x) == [t |-> "float", v |-> x]
Ok(x) == [exc |-> FALSE, val |-> x]
Raise == [exc |-> TRUE, val |-> PyNone]
EmptyTable == [k \in {} |-> 0]
PyDict(d) == [isDict |-> TRUE, d |-> d]
NotADict == [isDict |-> FALSE, d |-> EmptyTable]

AllIds == <<"c1", "c2", "c3", "c4">>
Min(a, b) == IF a < b THEN a ELSE b
CustomerIds == {AllIds[k] : k \in 1..Min(MaxCustomers, Len(AllIds))}
\* sample prices: 10.0 and 20.0
Prices == {One, One + One}
EpsSet == {0 - Sigma, 0, Sigma}
Lengths == {1, 7, DefaultLength, 365}
Range(s) == {s[k] : k \in 1..Len(s)}
Orders(S) == {s \in [1..Cardinality(S) -> S] : Range(s) = S}
PriceTables == UNION {[S -> Prices] : S \in SUBSET CustomerIds}

\* what the collaborators may hand back
HistoricalOutcomes == {"None", "empty", "data", "raise"}
MarketOutcomes == {"None", "empty", "data", "raise"}
ChurnOutcomes == {Ok(PyFloat(0)), Ok(PyFloat(One)), Ok(PyNone), Raise}
\* the market segment a customer belongs to; the engine holds no such mapping
\* (engine.py:117 looks the demand up under the customer id), so it is taken
\* from the design document: every customer is in segment "s1"
SegmentOf == [c \in CustomerIds |-> "s1"]
DemandKeys == {"c1", "s1"}
DemandTables == UNION {[S -> {One}] : S \in SUBSET DemandKeys}
RaiseDemand == [exc |-> TRUE, val |-> NotADict]
DemandOutcomes == {Ok(PyDict(d)) : d \in DemandTables} \cup {Ok(NotADict), RaiseDemand}

\* Python truth value of a lookup result: None and empty containers are falsy
Truthy(x) == x = "data"

\* ----------------------------------------------------------- pure helpers

\* variant: the lookup is guarded but a failing prediction is let through
predict_customer_churn_unguarded(historical_data, churn_prob) ==
  IF historical_data = "raise" THEN Ok(PyFloat(Half))
  ELSE IF ~Truthy(historical_data) THEN Ok(PyFloat(Half))
  ELSE churn_prob

\* engine.py:36-58
predict_customer_churn(historical_data, churn_prob) ==
  IF historical_data = "raise" THEN Ok(PyFloat(Half))
  ELSE IF ~Truthy(historical_data) THEN Ok(PyFloat(Half))
  ELSE IF churn_prob.exc THEN Ok(PyFloat(Half))
  ELSE Ok(churn_prob.val)

\* variant: the `if not market_data` test is missing
predict_market_demand_unchecked(market_data, demand) ==
  IF market_data = "raise" THEN Ok(PyDict(EmptyTable))
  ELSE IF demand.exc THEN Ok(PyDict(EmptyTable))
  ELSE Ok(demand.val)

\* engine.py:60-80
predict_market_demand(market_data, demand) ==
  IF market_data = "raise" THEN Ok(PyDict(EmptyTable))
  ELSE IF ~Truthy(market_data) THEN Ok(PyDict(EmptyTable))
  ELSE IF demand.exc THEN Ok(PyDict(EmptyTable))
  ELSE Ok(demand.val)

\* variant: churn probability used where the retention probability belongs
predict_revenue_churned(price, churn_probability, market_demand, subscription_length) ==
  IF price.t = "float" /\ churn_probability.t = "float" /\ market_demand.t = "float"
  THEN Ok(PyFloat(price.v * churn_probability.v * market_demand.v * subscription_length))
  ELSE Ok(PyNone)

\* pricing_model.py:16-43; arithmetic on a non-number raises TypeError inside
\* the try, and the handler's bare `return` yields None
predict_revenue(price, churn_probability, market_demand, subscription_length) ==
  IF price.t = "float" /\ churn_probability.t = "float" /\ market_demand.t = "float"
  THEN Ok(PyFloat(price.v * (One - churn_probability.v) * market_demand.v * subscription_length))
  ELSE Ok(PyNone)

\* dict.get(key, default) at engine.py:117; AttributeError when not a dict
DictGet(obj, key, default) ==
  IF ~obj.isDict THEN Raise
  ELSE IF key \in DOMAIN obj.d THEN Ok(PyFloat(obj.d[key]))
  ELSE Ok(PyFloat(default))

\* variant: `>=` in place of `>`
GreaterOrEqualZero(x) ==
  IF x.t = "float" THEN Ok(x.v >= 0) ELSE [exc |-> TRUE, val |-> FALSE]

\* `predicted_revenue > 0` at engine.py:120; TypeError when None
GreaterThanZero(x) ==
  IF x.t = "float" THEN Ok(x.v > 0) ELSE [exc |-> TRUE, val |-> FALSE]

\* current_price * (1 + eps) at engine.py:120
Perturbed(current_price, e) == (current_price * (One + e)) \div One

\* format(obj, spec) inside the f-string at engine.py:123: the operand is the
\* bound method total_seconds (it is not called), and object.__format__
\* raises TypeError for a non-empty format spec
PyFormat(kind, fmt) ==
  IF kind = "float" \/ fmt = "" THEN Ok(PyNone) ELSE Raise
ElapsedOperand == "method"
ElapsedFormat == ".2f"

\* variant: the handler keeps the prices computed so far
FallbackPartial(h, cur, opt) ==
  [heap |-> Append(h, [c \in DOMAIN h[cur] |->
                         IF c \in DOMAIN h[opt] THEN h[opt][c] ELSE h[cur][c]]),
   ref |-> Len(h) + 1]

\* variant: the handler returns the unfinished optimized_prices
FallbackOptimized(h, cur, opt) == [heap |-> h, ref |-> opt]

\* variant: the handler returns current_prices itself, without .copy()
FallbackAlias(h, cur, opt) == [heap |-> h, ref |-> cur]

\* the handler at engine.py:126-129: a copy of the caller's table is returned
Fallback(h, cur, opt) == [heap |-> Append(h, h[cur]), ref |-> Len(h) + 1]

\* the dictionary written at engine.py:119
Target(cur, opt) == opt

\* collaborator invocations made by one iteration of engine.py:104-106, by
\* engine.py:109, and by one iteration of engine.py:113-121
ChurnEvents(customer_id) == <<<<"churn", customer_id>>>>
DemandEvents == <<<<"demand", "">>>>
\* variant: the demand forecast is made again for every customer
RevenueEventsWithDemand(customer_id) == <<<<"demand", "">>, <<"revenue", customer_id>>>>
RevenueEvents(customer_id) == <<<<"revenue", customer_id>>>>

\* ------------------------------------------------------------------ state
VARIABLES
  pc,                 \* position of the caller / of optimize_pricing
  heap,               \* sequence of dictionaries; a reference is an index
  current_prices,     \* reference to the caller's table
  input,              \* the caller's table as it was when the call started
  order,              \* iteration order of current_prices
  i,                  \* index into order of the running loop
  churn_predictions,  \* engine.py:103
  demand_predictions, \* engine.py:109
  optimized_prices,   \* reference, engine.py:112 (0 before it exists)
  result,             \* reference returned to the caller (0 before return)
  outcome,            \* "none", "return" or "raise"
  excepted,           \* the handler at engine.py:126 has been entered
  log,                \* sequence of collaborator invocations
  lastChurn,          \* inputs and result of the _predict_customer_churn call
                      \* that has just returned (NoChurn once the loop is left)
  lastDemand,         \* inputs and result of the _predict_market_demand call
                      \* that has just returned (NoDemand after the next step)
  demandArg,          \* demand score passed to predict_revenue, per customer
  revenue,            \* predicted_revenue, per customer
  eps,                \* perturbation drawn, per customer
  revCall,            \* inputs and result of a direct predict_revenue call
  collabFailed        \* a collaborator raised or gave no usable value so far

vars == <<pc, heap, current_prices, input, order, i, churn_predictions,
          demand_predictions, optimized_prices, result, outcome, excepted, log,
          lastChurn, lastDemand, demandArg, revenue, eps, revCall,
          collabFailed>>

NoChurn == [cid |-> "", hist |-> "None", pred |-> Raise, ret |-> Raise]
NoDemand == [called |-> FALSE, market |-> "None", pred |-> Ok(NotADict), ret |-> Ok(NotADict)]
NoRev == [price |-> 0, churn |-> PyNone, demand |-> PyNone, omitted |-> TRUE,
          length |-> 0, ret |-> Ok(PyNone)]

Init ==
  /\ pc = "idle"
  /\ heap = <<>>
  /\ current_prices = 0
  /\ input = EmptyTable
  /\ order = <<>>
  /\ i = 1
  /\ churn_predictions = EmptyTable
  /\ demand_predictions = NotADict
  /\ optimized_prices = 0
  /\ result = 0
  /\ outcome = "none"
  /\ excepted = FALSE
  /\ log = <<>>
  /\ lastChurn = NoChurn
  /\ lastDemand = NoDemand
  /\ demandArg = EmptyTable
  /\ revenue = EmptyTable
  /\ eps = EmptyTable
  /\ revCall = NoRev
  /\ collabFailed = FALSE

Put(tbl, k, x) == [y \in DOMAIN tbl \cup {k} |-> IF y = k THEN x ELSE tbl[y]]

\* the caller builds a price table and calls optimize_pricing (engine.py:82-100)
CallOptimizePricing ==
  /\ pc = "idle"
  /\ \E tbl \in PriceTables : \E o \in Orders(DOMAIN tbl) :
       /\ heap' = <<tbl>>
       /\ input' = tbl
       /\ order' = o
  /\ current_prices' = 1
  /\ pc' = "churn_loop"
  /\ i' = 1
  /\ UNCHANGED <<churn_predictions, demand_predictions, optimized_prices, result,
                 outcome, excepted, log, lastChurn, lastDemand, demandArg,
                 revenue, eps, revCall,
                 collabFailed>>

\* one iteration of engine.py:104-106, the call to _predict_customer_churn included
ChurnLoop ==
  /\ pc = "churn_loop"
  /\ i <= Len(order)
  /\ \E h \in HistoricalOutcomes, p \in ChurnOutcomes :
       LET r == predict_customer_churn(h, p) IN
         /\ lastChurn' = [cid |-> order[i], hist |-> h, pred |-> p, ret |-> r]
         /\ churn_predictions' = Put(churn_predictions, order[i], r.val)
         /\ collabFailed' = (collabFailed \/ h = "raise" \/ (Truthy(h) /\ p.exc))
  /\ log' = log \o ChurnEvents(order[i])
  /\ i' = i + 1
  /\ UNCHANGED <<pc, heap, current_prices, input, order, demand_predictions,
                 optimized_prices, result, outcome, excepted, lastDemand,
                 demandArg, revenue, eps, revCall>>

\* engine.py:109 and 112: the demand forecast, then the empty result table
MarketDemand ==
  /\ pc = "churn_loop"
  /\ i > Len(order)
  /\ \E m \in MarketOutcomes, d \in DemandOutcomes :
       LET r == predict_market_demand(m, d) IN
         /\ lastDemand' = [called |-> TRUE, market |-> m, pred |-> d, ret |-> r]
         /\ demand_predictions' = r.val
         /\ collabFailed' = (collabFailed \/ m = "raise" \/ (Truthy(m) /\ d.exc))
  /\ log' = log \o DemandEvents
  /\ heap' = Append(heap, EmptyTable)
  /\ optimized_prices' = Len(heap) + 1
  /\ i' = 1
  /\ pc' = "price_loop"
  /\ lastChurn' = NoChurn
  /\ UNCHANGED <<current_prices, input, order, churn_predictions, result, outcome,
                 excepted, demandArg, revenue, eps, revCall>>

\* one iteration of engine.py:113-121
PriceLoop ==
  /\ pc = "price_loop"
  /\ i <= Len(order)
  /\ LET customer_id == order[i]
         current_price == heap[current_prices][customer_id]
         g == DictGet(demand_predictions, customer_id, Half)
         r == predict_revenue(PyFloat(current_price), churn_predictions[customer_id],
                              g.val, DefaultLength)
         positive == GreaterThanZero(r.val)
         tgt == Target(current_prices, optimized_prices)
     IN IF g.exc
        THEN /\ pc' = "except"
             /\ collabFailed' = TRUE
             /\ UNCHANGED <<heap, i, log, demandArg, revenue, eps>>
        ELSE /\ log' = log \o RevenueEvents(customer_id)
             /\ demandArg' = Put(demandArg, customer_id, g.val.v)
             /\ revenue' = Put(revenue, customer_id, r.val)
             /\ collabFailed' = (collabFailed \/ r.val.t = "None")
             /\ IF positive.exc
                THEN /\ pc' = "except"
                     /\ UNCHANGED <<heap, i, eps>>
                ELSE /\ pc' = pc
                     /\ i' = i + 1
                     /\ IF positive.val
                        THEN \E e \in EpsSet :
                               /\ eps' = Put(eps, customer_id, e)
                               /\ heap' = [heap EXCEPT ![tgt] =
                                             Put(@, customer_id, Perturbed(current_price, e))]
                        ELSE /\ eps' = eps
                             /\ heap' = [heap EXCEPT ![tgt] =
                                           Put(@, customer_id, current_price)]
  /\ lastDemand' = NoDemand
  /\ UNCHANGED <<current_prices, input, order, churn_predictions, demand_predictions,
                 optimized_prices, result, outcome, excepted, lastChurn, revCall>>

\* engine.py:123-124: the log line's f-string is evaluated, then the return
FinishTry ==
  /\ pc = "price_loop"
  /\ i > Len(order)
  /\ IF PyFormat(ElapsedOperand, ElapsedFormat).exc
     THEN /\ pc' = "except"
          /\ UNCHANGED <<result, outcome>>
     ELSE /\ pc' = "returned"
          /\ result' = optimized_prices
          /\ outcome' = "return"
  /\ lastDemand' = NoDemand
  /\ UNCHANGED <<heap, current_prices, input, order, i, churn_predictions,
                 demand_predictions, optimized_prices, excepted, log, lastChurn,
                 demandArg, revenue, eps, revCall,
                 collabFailed>>

\* engine.py:126-129
Except ==
  /\ pc = "except"
  /\ LET f == Fallback(heap, current_prices, optimized_prices) IN
       /\ heap' = f.heap
       /\ result' = f.ref
  /\ excepted' = TRUE
  /\ outcome' = "return"
  /\ pc' = "returned"
  /\ UNCHANGED <<current_prices, input, order, i, churn_predictions,
                 demand_predictions, optimized_prices, log, lastChurn, lastDemand,
                 demandArg, revenue, eps, revCall,
                 collabFailed>>

\* after the call the caller empties the table it got back (dict.clear())
CallerEditsResult ==
  /\ pc = "returned"
  /\ outcome = "return"
  /\ heap' = [heap EXCEPT ![result] = EmptyTable]
  /\ pc' = "edited"
  /\ UNCHANGED <<current_prices, input, order, i, churn_predictions,
                 demand_predictions, optimized_prices, result, outcome, excepted,
                 log, lastChurn, lastDemand, demandArg, revenue, eps, revCall,
                 collabFailed>>

\* a direct call of PricingModel.predict_revenue (pricing_model.py:16-43),
\* with or without the subscription_length argument
RevenueInputs == {PyFloat(0), PyFloat(Half), PyFloat(One), PyFloat(One + Half), PyNone}
CallPredictRevenue ==
  /\ pc = "idle"
  /\ \E p \in Prices, c \in RevenueInputs, d \in RevenueInputs,
        omitted \in BOOLEAN, len \in Lengths :
       /\ omitted => len = DefaultLength
       /\ revCall' = [price |-> p, churn |-> c, demand |-> d, omitted |-> omitted,
                      length |-> len,
                      ret |-> IF omitted
                              THEN predict_revenue(PyFloat(p), c, d, DefaultLength)
                              ELSE predict_revenue(PyFloat(p), c, d, len)]
  /\ pc' = "revenue_returned"
  /\ UNCHANGED <<heap, current_prices, input, order, i, churn_predictions,
                 demand_predictions, optimized_prices, result, outcome, excepted,
                 log, lastChurn, lastDemand, demandArg, revenue, eps,
                 collabFailed>>

Next ==
  \/ CallOptimizePricing
  \/ ChurnLoop
  \/ MarketDemand
  \/ PriceLoop
  \/ FinishTry
  \/ Except
  \/ CallerEditsResult
  \/ CallPredictRevenue

Spec == Init /\ [][Next]_vars

TypeOK ==
  /\ pc \in {"idle", "churn_loop", "price_loop", "except", "returned", "edited",
             "revenue_returned"}
  /\ outcome \in {"none", "return", "raise"}
  /\ result \in 0..Len(heap)

\* ----------------------------------------------------------------- claims
Count(kind, customer_id) ==
  Cardinality({k \in 1..Len(log) : log[k] = <<kind, customer_id>>})
IsFloat(x) == x.t = "float"
InCall == pc \in {"churn_loop", "price_loop", "except", "returned", "edited"}

\* C1: in a call in which no collaborator fails, every customer whose
\* predicted revenue is strictly positive gets current_price * (1 + eps) back,
\* eps being the perturbation drawn for that customer.
C1_PerturbedPriceReturned ==
  (pc = "returned" /\ ~collabFailed) =>
    \A c \in DOMAIN input :
      (c \in DOMAIN revenue /\ IsFloat(revenue[c]) /\ revenue[c].v > 0) =>
        (c \in DOMAIN eps /\ heap[result][c] = Perturbed(input[c], eps[c]))

\* C2: when a step of the call fails (a revenue estimation that yields no
\* value included), the call returns normally and the returned table equals
\* the input table entry for entry.
C2_FailureReturnsInput ==
  (pc = "returned" /\ excepted) =>
    /\ outcome = "return"
    /\ result \in 1..Len(heap)
    /\ heap[result] = input

\* a revenue estimation gave None after another customer's price had already
\* been changed in optimized_prices
C2_Witness ==
  /\ pc = "returned"
  /\ excepted
  /\ \E c \in DOMAIN revenue : revenue[c] = PyNone
  /\ \E c \in DOMAIN heap[optimized_prices] : heap[optimized_prices][c] # input[c]

\* C3: the returned table has exactly the customer ids of the input table.
C3_SameKeySet ==
  pc = "returned" => DOMAIN heap[result] = DOMAIN input

\* the call ended while optimized_prices held only some of the customers
C3_Witness ==
  /\ pc = "returned"
  /\ Cardinality(DOMAIN input) >= 2
  /\ DOMAIN heap[optimized_prices] # DOMAIN input
  /\ DOMAIN heap[optimized_prices] # {}

\* C4: a customer whose predicted revenue is <= 0 keeps the input price, in
\* the table being computed and in the table returned.
C4_NonPositiveRevenueKeepsPrice ==
  \A c \in DOMAIN revenue :
    (IsFloat(revenue[c]) /\ revenue[c].v <= 0) =>
      /\ c \in DOMAIN heap[optimized_prices] =>
           heap[optimized_prices][c] = input[c]
      /\ pc = "returned" => heap[result][c] = input[c]

C4_Witness ==
  /\ pc = "returned"
  /\ \E c \in DOMAIN revenue :
       /\ IsFloat(revenue[c]) /\ revenue[c].v = 0
       /\ churn_predictions[c] = PyFloat(One)
       /\ c \in DOMAIN heap[optimized_prices]

C6_DemandFallback ==
  lastDemand.called =>
    /\ ~lastDemand.ret.exc
    /\ lastDemand.market \in {"None", "empty"} => lastDemand.ret.val = PyDict(EmptyTable)
    /\ lastDemand.market = "raise" => lastDemand.ret.val = PyDict(EmptyTable)
    /\ (lastDemand.market = "data" /\ lastDemand.pred.exc) =>
         lastDemand.ret.val = PyDict(EmptyTable)
    /\ (lastDemand.market = "data" /\ ~lastDemand.pred.exc) =>
         lastDemand.ret.val = lastDemand.pred.val
    /\ demand_predictions = lastDemand.ret.val

\* no market conditions, although the collaborator would have predicted a
\* non-empty table
C6_Witness ==
  /\ lastDemand.called
  /\ lastDemand.market \in {"None", "empty"}
  /\ ~lastDemand.pred.exc
  /\ lastDemand.pred.val.isDict
  /\ lastDemand.pred.val.d # EmptyTable

ChurnBeforeDemandBeforeRevenue ==
  \A j, k \in 1..Len(log) :
    /\ (log[j][1] = "churn" /\ log[k][1] = "demand") => j < k
    /\ (log[j][1] = "demand" /\ log[k][1] = "revenue") => j < k

\* C7 as stated: in every call churn prediction runs exactly once per
\* customer, the demand forecast exactly once, revenue estimation exactly
\* once per customer, in that order.
C7_ExactlyOncePerCustomer ==
  /\ ChurnBeforeDemandBeforeRevenue
  /\ pc = "returned" =>
       /\ \A c \in DOMAIN input : Count("churn", c) = 1 /\ Count("revenue", c) = 1
       /\ Count("demand", "") = 1

\* the price loop stopped early: a revenue estimation gave no value, or the
\* lookup in the demand table raised
PriceLoopStopped ==
  \/ \E c \in DOMAIN revenue : ~IsFloat(revenue[c])
  \/ (~demand_predictions.isDict /\ input # EmptyTable)

\* C7 amended: churn prediction exactly once per customer, the demand
\* forecast exactly once, revenue estimation at most once per customer and
\* exactly once per customer unless the price loop stopped early; every churn
\* prediction precedes the demand forecast, which precedes every revenue
\* estimation.
C7_OncePerCustomerUnlessStopped ==
  /\ ChurnBeforeDemandBeforeRevenue
  /\ \A c \in CustomerIds : Count("churn", c) <= 1 /\ Count("revenue", c) <= 1
  /\ Count("demand", "") <= 1
  /\ \A k \in 1..Len(log) : log[k][2] \in DOMAIN input \cup {""}
  /\ pc = "returned" =>
       /\ \A c \in DOMAIN input : Count("churn", c) = 1
       /\ Count("demand", "") = 1
       /\ ~PriceLoopStopped => \A c \in DOMAIN input : Count("revenue", c) = 1

C7_Witness ==
  /\ pc = "returned"
  /\ Cardinality(DOMAIN input) >= 2
  /\ ~PriceLoopStopped
  /\ \A c \in DOMAIN input : Count("revenue", c) = 1

\* C8: the demand score passed to revenue estimation is the DemandTable entry
\* of the customer's market segment, and 0.5 exactly when there is none.
C8_DemandOfSegment ==
  \A c \in DOMAIN demandArg :
    demandArg[c] = IF SegmentOf[c] \in DOMAIN demand_predictions.d
                   THEN demand_predictions.d[SegmentOf[c]]
                   ELSE Half

\* C9: with numeric inputs predict_revenue returns
\* price * (1 - churn) * demand * length, length being 30 when omitted: 0 for
\* churn 1, price * 30 for churn 0, demand 1 and length 30, and never a
\* negative value for churn and demand within [0, 1].
C9_RevenueFormula ==
  (pc = "revenue_returned" /\ IsFloat(revCall.churn) /\ IsFloat(revCall.demand)) =>
    LET len == IF revCall.omitted THEN 30 ELSE revCall.length
        churn == revCall.churn.v
        demand == revCall.demand.v
        value == revCall.ret.val.v
    IN /\ ~revCall.ret.exc
       /\ IsFloat(revCall.ret.val)
       /\ value = revCall.price * (One - churn) * demand * len
       /\ churn = One => value = 0
       /\ (churn = 0 /\ demand = One /\ len = 30) =>
            value = revCall.price * 30 * One * One
       /\ (churn \in 0..One /\ demand \in 0..One) => value >= 0
       /\ (churn \in 0..(One - 1) /\ demand \in 1..One) => value > 0

C9_Witness ==
  /\ pc = "revenue_returned"
  /\ revCall.omitted
  /\ revCall.churn = PyFloat(0)
  /\ revCall.demand = PyFloat(One)
  /\ revCall.ret.val.v = revCall.price * 30 * One * One

\* C10: the call leaves the caller's table as it was, and the table returned
\* is another object, so that editing it leaves the caller's table alone.
C10_InputUntouched ==
  InCall =>
    /\ heap[current_prices] = input
    /\ pc \in {"returned", "edited"} => result # current_prices

C10_Witness ==
  /\ pc = "edited"
  /\ heap[result] # input
  /\ heap[current_prices] = input

====
